---- MODULE Spec2Model ----
(***************************************************************************)
(* Link-graph analysis of hw2-script.py: the two-stage ingestion pipeline   *)
(* of analyze_bucket (threaded download, threaded parse), the graph built   *)
(* from its pairs, the degree statistics, the PageRank solver               *)
(* compute_page_rank and the top-5 report.                                  *)
(*                                                                         *)
(* Strings are sequences of tokens ("d/a.html" is <<"d","/","a",".html">>); *)
(* the token set is prefix-free, so equality, concatenation, suffix tests   *)
(* and lexicographic order on token sequences are those of the strings.     *)
(* Python floats are fixed-point integers with SCALE units per 1.0, every   *)
(* division rounding to nearest.                                            *)
(***************************************************************************)
EXTENDS Integers, Sequences, FiniteSets, TLC

VARIABLES
    pc,                   \* position of the single orchestrating control flow
    is_local,             \* analyze_bucket's is_local argument
    all_blobs,            \* the listing of the source, with each blob's content
    results,              \* per blob, what its download worker returned
    blobs_to_process,     \* (name, content) of the downloaded .html blobs
    parsed,               \* per fetched blob, what its parse worker returned
    parsed_results,       \* list of (name, outlinks) pairs
    overtaken,            \* the pools in which a worker finished ahead of an earlier one
    nodes,                \* list of node identifiers
    edges,                \* dict node -> list of outlinks
    in_counts,            \* defaultdict(int) target -> number of links to it
    outgoing_links_stats, \* get_stats(out_degrees)
    incoming_links_stats, \* get_stats(in_degrees)
    d,                    \* damping factor (fixed-point)
    tol,                  \* tolerance (fixed-point)
    page_ranks,           \* dict node -> rank (fixed-point)
    iteration,            \* number of solver iterations done
    converged,            \* the solver's loop flag
    total_rank,           \* sum of the returned ranks, as reported
    outbound_counts,      \* dict node -> len(edges[node])
    incoming_links,       \* defaultdict(list) target -> list of sources
    top_5_pageranks       \* the reported list of (page, score)

vars == <<pc, is_local, all_blobs, results, blobs_to_process, parsed,
          parsed_results, overtaken, nodes, edges, in_counts, outgoing_links_stats,
          incoming_links_stats, d, tol, page_ranks, iteration, converged,
          total_rank, outbound_counts, incoming_links, top_5_pageranks>>

pipelineVars == <<is_local, all_blobs, results, blobs_to_process, parsed,
                  parsed_results, overtaken>>
graphVars == <<nodes, edges, in_counts>>
statsVars == <<outgoing_links_stats, incoming_links_stats>>
solverVars == <<page_ranks, iteration, converged, total_rank, outbound_counts,
               incoming_links>>

----------------------------------------------------------------------------
(* Bounds of the model *)

\* fixed-point units per 1.0
SCALE == 1000000
\* total number of hyperlinks in the documents of one source
MaxHrefs == 3
\* number of documents of one source whose download raises or whose parse fails
MaxFailures == 2
\* total number of edges of a graph handed directly to compute_page_rank
MaxEdges == 4
\* iterations after which the model stops following a solver that never converges
IterBound == 101

\* the "configured maximum number of iterations" the specification asks for
MaxIterations == 100

\* the slice [:5] of the report
TOP_K == 5

----------------------------------------------------------------------------
(* Numbers *)

Abs(x) == IF x < 0 THEN -x ELSE x

\* a / b on floats: the nearest fixed-point value (a >= 0, b > 0)
RoundDiv(a, b) == (2 * a + b) \div (2 * b)

\* quotient and remainder of a * b by c, without forming the product: the
\* digits of a in base 512 keep every intermediate value within 32 bits
RECURSIVE MulDivQR(_, _, _)
MulDivQR(a, b, c) ==
    IF a = 0 THEN <<0, 0>>
    ELSE LET h == MulDivQR(a \div 512, b, c)
             t == 512 * h[2] + (a % 512) * b
         IN  <<512 * h[1] + t \div c, t % c>>

\* a * b / c on floats: the nearest fixed-point value (a, b >= 0, c > 0)
MulDiv(a, b, c) ==
    LET qr == MulDivQR(a, b, c) IN qr[1] + (IF 2 * qr[2] >= c THEN 1 ELSE 0)

\* the float written num/den in the source
Fixed(num, den) == RoundDiv(num * SCALE, den)

RECURSIVE SumSeq(_)
SumSeq(s) == IF s = <<>> THEN 0 ELSE Head(s) + SumSeq(Tail(s))

RECURSIVE MaxSeq(_)
MaxSeq(s) == IF Len(s) = 1 THEN s[1]
             ELSE LET m == MaxSeq(Tail(s)) IN IF s[1] > m THEN s[1] ELSE m

RECURSIVE MinSeq(_)
MinSeq(s) == IF Len(s) = 1 THEN s[1]
             ELSE LET m == MinSeq(Tail(s)) IN IF s[1] < m THEN s[1] ELSE m

Range(s) == {s[i] : i \in DOMAIN s}

\* number of positions of s holding x
Count(s, x) == Cardinality({i \in DOMAIN s : s[i] = x})

----------------------------------------------------------------------------
(* Strings *)

\* code point order of the tokens' first differing characters
TokenOrd == [t \in {".html", ".txt", "/", "//", "A", "B", "C", "X", "a", "b", "d",
                    "http:", "n", "x"} |->
             CASE t = ".html" -> 1 [] t = ".txt" -> 2 [] t = "/" -> 3 [] t = "//" -> 4
               [] t = "A" -> 5 [] t = "B" -> 6 [] t = "C" -> 7 [] t = "X" -> 8
               [] t = "a" -> 9 [] t = "b" -> 10 [] t = "d" -> 11 [] t = "http:" -> 12
               [] t = "n" -> 13 [] t = "x" -> 14]

\* s < t on strings
RECURSIVE StrLess(_, _)
StrLess(s, t) ==
    IF t = <<>> THEN FALSE
    ELSE IF s = <<>> THEN TRUE
    ELSE IF Head(s) = Head(t) THEN StrLess(Tail(s), Tail(t))
    ELSE TokenOrd[Head(s)] < TokenOrd[Head(t)]

\* name.endswith('.html')
EndsWithHtml(name) == name # <<>> /\ name[Len(name)] = ".html"

----------------------------------------------------------------------------
(* Sources: the documents analyze_bucket can be pointed at *)

DocA == <<"d", "/", "a", ".html">>
DocB == <<"d", "/", "b", ".html">>
Note == <<"n", ".txt">>
BlobNames == {DocA, DocB, Note}

\* the href values found in documents: a relative link to a sibling, a
\* corpus-relative path, a root-relative path and an absolute URL
HrefRelative == <<"b", ".html">>
HrefPath == <<"d", "/", "b", ".html">>
HrefRoot == <<"/", "d", "/", "b", ".html">>
HrefAbsolute == <<"http:", "//", "x">>
Hrefs == {HrefRelative, HrefPath, HrefRoot, HrefAbsolute}

\* sequences over T of length exactly m
SeqsOfLen(T, m) == [1..m -> T]

\* every order of every subset of S
RECURSIVE Listings(_)
Listings(S) ==
    {<<>>} \cup UNION {{<<x>> \o l : l \in Listings(S \ {x})} : x \in S}

Blob(name, fails, parse_ok, hrefs) ==
    [name |-> name, fails |-> fails, parse_ok |-> parse_ok, hrefs |-> hrefs]

\* the contents the blobs named by `names` can have, with at most h hyperlinks
\* and at most f failing documents in all; what is never read holds nothing
RECURSIVE Contents(_, _, _)
Contents(names, h, f) ==
    IF names = <<>> THEN {<<>>}
    ELSE LET n == Head(names)
             rest == Tail(names)
         IN  IF ~EndsWithHtml(n)
             THEN {<<Blob(n, FALSE, TRUE, <<>>)>> \o r : r \in Contents(rest, h, f)}
             ELSE UNION {{<<Blob(n, FALSE, TRUE, l)>> \o r :
                             l \in SeqsOfLen(Hrefs, m), r \in Contents(rest, h - m, f)}
                         : m \in 0..h}
                  \cup (IF f = 0 THEN {}
                        ELSE {<<b>> \o r :
                                 b \in {Blob(n, TRUE, TRUE, <<>>), Blob(n, FALSE, FALSE, <<>>)},
                                 r \in Contents(rest, h, f - 1)})

IsSorted(names) == \A i, j \in DOMAIN names : i < j => StrLess(names[i], names[j])

\* a bucket lists its blobs in ascending name order; os.walk lists in any order
Sources ==
    {[local |-> l, blobs |-> b] :
        l \in BOOLEAN,
        b \in UNION {Contents(names, MaxHrefs, MaxFailures) : names \in Listings(BlobNames)}}

SourceOK(s) == s.local \/ IsSorted([i \in DOMAIN s.blobs |-> s.blobs[i].name])

----------------------------------------------------------------------------
(* Values of the pipeline *)

Pending == [kind |-> "pending", name |-> <<>>, content |-> <<>>]
None == [kind |-> "None", name |-> <<>>, content |-> <<>>]
Raised == [kind |-> "raised", name |-> <<>>, content |-> <<>>]
Pair(name, content) == [kind |-> "pair", name |-> name, content |-> content]

\* blob.download_as_text(): the content, which the parser reads
Content(blob) == [parse_ok |-> blob.parse_ok, hrefs |-> blob.hrefs]

download_helper(blob) ==
    IF ~EndsWithHtml(blob.name) THEN None
    ELSE IF blob.fails THEN Raised
    ELSE Pair(blob.name, Content(blob))

\* BeautifulSoup's a['href'] for every <a href=...>, or [] when it raises
process_blob_content(args) ==
    IF args.content.parse_ok THEN Pair(args.name, args.content.hrefs)
    ELSE Pair(args.name, <<>>)

\* [r for r in results if r]
RECURSIVE Truthy(_)
Truthy(rs) ==
    IF rs = <<>> THEN <<>>
    ELSE IF Head(rs).kind = "None" THEN Truthy(Tail(rs))
    ELSE <<Head(rs)>> \o Truthy(Tail(rs))

\* leaving a pool's with-block without waiting for its workers
PoolLeftRunning(slots) == TRUE

\* the with-block of a ThreadPoolExecutor ends, and list(pool.map(...)) is
\* complete, when every submitted worker has returned or raised
PoolDrained(slots) == \A i \in DOMAIN slots : slots[i].kind # "pending"

\* worker i returns while a worker submitted before it is still running
FinishesAhead(slots, i) == \E j \in DOMAIN slots : j < i /\ slots[j].kind = "pending"

EmptyDict == <<>>

\* d[k] of a defaultdict whose default is dflt
Get(dict, k, dflt) == IF k \in DOMAIN dict THEN dict[k] ELSE dflt

Put(dict, k, v) == [x \in DOMAIN dict \cup {k} |-> IF x = k THEN v ELSE dict[x]]

----------------------------------------------------------------------------
(* Graph construction and statistics *)

\* for name, links in parsed_results: nodes.append(name)
GraphNodes(prs) == [i \in DOMAIN prs |-> prs[i].name]

\* for name, links in parsed_results: edges[name] = links
RECURSIVE GraphEdges(_, _)
GraphEdges(prs, acc) ==
    IF prs = <<>> THEN acc
    ELSE GraphEdges(Tail(prs), Put(acc, Head(prs).name, Head(prs).content))

\* for link in links: in_counts[link] += 1
RECURSIVE CountLinks(_, _)
CountLinks(links, acc) ==
    IF links = <<>> THEN acc
    ELSE CountLinks(Tail(links), Put(acc, Head(links), Get(acc, Head(links), 0) + 1))

RECURSIVE GraphInCounts(_, _)
GraphInCounts(prs, acc) ==
    IF prs = <<>> THEN acc
    ELSE GraphInCounts(Tail(prs), CountLinks(Head(prs).content, acc))

\* s with x inserted before the first element greater than x
RECURSIVE Insert(_, _)
Insert(s, x) ==
    IF s = <<>> THEN <<x>>
    ELSE IF x < Head(s) THEN <<x>> \o s
    ELSE <<Head(s)>> \o Insert(Tail(s), x)

RECURSIVE SortAsc(_)
SortAsc(s) == IF s = <<>> THEN <<>> ELSE Insert(SortAsc(Tail(s)), Head(s))

\* np.percentile(data, q) with linear interpolation, on sorted data
Percentile(sorted, q) ==
    LET n == Len(sorted)
        pos == q * (n - 1)
        lo == pos \div 100
        hi == IF lo + 1 < n THEN lo + 1 ELSE lo
    IN  sorted[lo + 1] * SCALE
        + RoundDiv((sorted[hi + 1] - sorted[lo + 1]) * (pos % 100) * SCALE, 100)

get_stats(data) ==
    IF data = <<>> THEN EmptyDict
    ELSE LET sorted == SortAsc(data) IN
         [Avg |-> RoundDiv(SumSeq(data) * SCALE, Len(data)),
          Median |-> Percentile(sorted, 50),
          Max |-> MaxSeq(data),
          Min |-> MinSeq(data),
          Quintiles |-> <<Percentile(sorted, 20), Percentile(sorted, 40),
                          Percentile(sorted, 60), Percentile(sorted, 80)>>]

out_degrees == [i \in DOMAIN nodes |-> Len(edges[nodes[i]])]
in_degrees == [i \in DOMAIN nodes |-> Get(in_counts, nodes[i], 0)]

----------------------------------------------------------------------------
(* The PageRank solver *)

\* the inversion as it would be if a node's links to itself were left out
RECURSIVE AppendSourceNoSelf(_, _, _)
AppendSourceNoSelf(links, node, acc) ==
    IF links = <<>> THEN acc
    ELSE AppendSourceNoSelf(Tail(links), node,
            IF Head(links) = node THEN acc
            ELSE Put(acc, Head(links), Append(Get(acc, Head(links), <<>>), node)))

\* for outlink in edges[node]: incoming_links[outlink].append(node)
RECURSIVE AppendSource(_, _, _)
AppendSource(links, node, acc) ==
    IF links = <<>> THEN acc
    ELSE AppendSource(Tail(links), node,
                      Put(acc, Head(links), Append(Get(acc, Head(links), <<>>), node)))

RECURSIVE IncomingLinks(_, _, _)
IncomingLinks(ns, es, acc) ==
    IF ns = <<>> THEN acc
    ELSE IncomingLinks(Tail(ns), es, AppendSource(es[Head(ns)], Head(ns), acc))

\* the inner loop as it would be if a source linking twice counted once
RECURSIVE IncomingSumOnce(_, _)
IncomingSumOnce(sources, ranks) ==
    IF sources = <<>> THEN 0
    ELSE (IF outbound_counts[Head(sources)] > 0 /\ Head(sources) \notin Range(Tail(sources))
          THEN RoundDiv(ranks[Head(sources)], outbound_counts[Head(sources)])
          ELSE 0)
         + IncomingSumOnce(Tail(sources), ranks)

\* the inner loop over incoming_links[node], reading the ranks `ranks`
RECURSIVE IncomingSum(_, _)
IncomingSum(sources, ranks) ==
    IF sources = <<>> THEN 0
    ELSE (IF outbound_counts[Head(sources)] > 0
          THEN RoundDiv(ranks[Head(sources)], outbound_counts[Head(sources)])
          ELSE 0)
         + IncomingSum(Tail(sources), ranks)

\* the update as it would be without the (1 - d) / n term
NewRankLinksOnly(node, ranks) ==
    MulDiv(IncomingSum(Get(incoming_links, node, <<>>), ranks), d, SCALE)

\* the update as it would be with (1 - d) not divided by n
NewRankUndivided(node, ranks) ==
    (SCALE - d)
    + MulDiv(IncomingSum(Get(incoming_links, node, <<>>), ranks), d, SCALE)

\* new_rank = (1 - d) / n + d * incoming_sum
NewRank(node, ranks) ==
    RoundDiv(SCALE - d, Len(nodes))
    + MulDiv(IncomingSum(Get(incoming_links, node, <<>>), ranks), d, SCALE)

\* the pass as it would be if it wrote into page_ranks itself, each node
\* reading the ranks already updated in the same pass
RECURSIVE InPlacePass(_, _)
InPlacePass(ns, acc) ==
    IF ns = <<>> THEN acc
    ELSE InPlacePass(Tail(ns), [acc EXCEPT ![Head(ns)] = NewRank(Head(ns), acc)])

NewPageRanksInPlace == InPlacePass(nodes, page_ranks)

\* the pass over the nodes that fills new_page_ranks from page_ranks
NewPageRanks == [node \in Range(nodes) |-> NewRank(node, page_ranks)]

\* abs(new - old) / old of every node
RelativeErrors(new) ==
    [i \in DOMAIN nodes |->
        MulDiv(Abs(new[nodes[i]] - page_ranks[nodes[i]]), SCALE, page_ranks[nodes[i]])]

\* average_error < tol; np.mean of an empty list is nan, and nan < tol is False
BelowTolerance(new) ==
    /\ nodes # <<>>
    /\ RoundDiv(SumSeq(RelativeErrors(new)), Len(nodes)) < tol

\* the division of line 80 raises ZeroDivisionError
DividesByZero == \E i \in DOMAIN nodes : page_ranks[nodes[i]] = 0

RankSum(ranks) == SumSeq([i \in DOMAIN nodes |-> ranks[nodes[i]]])

----------------------------------------------------------------------------
(* The report *)

\* the insertion as it would be for a sort that is not stable: x goes before
\* the elements of equal score
RECURSIVE InsertBeforeEqual(_, _, _)
InsertBeforeEqual(s, x, ranks) ==
    IF s = <<>> THEN <<x>>
    ELSE IF ranks[x] >= ranks[Head(s)] THEN <<x>> \o s
    ELSE <<Head(s)>> \o InsertBeforeEqual(Tail(s), x, ranks)

\* s with x inserted after every element whose score is at least x's
RECURSIVE InsertByScore(_, _, _)
InsertByScore(s, x, ranks) ==
    IF s = <<>> THEN <<x>>
    ELSE IF ranks[x] > ranks[Head(s)] THEN <<x>> \o s
    ELSE <<Head(s)>> \o InsertByScore(Tail(s), x, ranks)

\* sorted(page_ranks.items(), key=lambda x: x[1], reverse=True): stable, so
\* equal scores stay in the dict's insertion order, the order of nodes
RECURSIVE SortedByScore(_, _)
SortedByScore(ns, ranks) ==
    IF ns = <<>> THEN <<>>
    ELSE InsertByScore(SortedByScore(SubSeq(ns, 1, Len(ns) - 1), ranks), ns[Len(ns)], ranks)

FirstK(s, k) == SubSeq(s, 1, IF Len(s) < k THEN Len(s) ELSE k)

TopPages(ns, ranks) ==
    LET order == FirstK(SortedByScore(ns, ranks), TOP_K)
    IN  [i \in DOMAIN order |-> <<order[i], ranks[order[i]]>>]

----------------------------------------------------------------------------
(* Graphs handed directly to compute_page_rank, as test_independent_correctness does *)

NodeA == <<"A">>
NodeB == <<"B">>
NodeC == <<"C">>
Outside == <<"X">>
NodeLists == {<<NodeA>>, <<NodeA, NodeB>>, <<NodeA, NodeB, NodeC>>}

\* the outlink lists of at most `budget` links, every target one of `targets`
LinkLists(targets, budget) == UNION {SeqsOfLen(targets, m) : m \in 0..budget}

\* the (d, tol) the solver is called with: the defaults, the test's tol=0.001,
\* no damping at all (d = 1) and no link following at all (d = 0)
Settings ==
    {[d |-> Fixed(85, 100), tol |-> Fixed(5, 1000)],
     [d |-> Fixed(85, 100), tol |-> Fixed(1, 1000)],
     [d |-> SCALE, tol |-> Fixed(5, 1000)],
     [d |-> 0, tol |-> Fixed(5, 1000)]}

----------------------------------------------------------------------------
(* Initial states *)

DefaultD == Fixed(85, 100)
DefaultTol == Fixed(5, 1000)

NoGraph ==
    /\ nodes = <<>>
    /\ edges = EmptyDict
    /\ in_counts = EmptyDict

NoSolver ==
    /\ d = DefaultD
    /\ tol = DefaultTol
    /\ page_ranks = EmptyDict
    /\ iteration = 0
    /\ converged = FALSE
    /\ total_rank = 0
    /\ outbound_counts = EmptyDict
    /\ incoming_links = EmptyDict
    /\ top_5_pageranks = <<>>

\* analyze_bucket(source, is_local) is entered
Init ==
    /\ pc = "start"
    /\ \E s \in Sources :
        /\ SourceOK(s)
        /\ is_local = s.local
        /\ all_blobs = s.blobs
    /\ results = <<>>
    /\ blobs_to_process = <<>>
    /\ parsed = <<>>
    /\ parsed_results = <<>>
    /\ overtaken = {}
    /\ outgoing_links_stats = EmptyDict
    /\ incoming_links_stats = EmptyDict
    /\ NoGraph
    /\ NoSolver

\* compute_page_rank(nodes, edges, d, tol) is called on a graph of one to three
\* nodes with at most MaxEdges edges in all
SolverInit ==
    /\ pc = "pagerank"
    /\ is_local = FALSE
    /\ all_blobs = <<>>
    /\ results = <<>>
    /\ blobs_to_process = <<>>
    /\ parsed = <<>>
    /\ parsed_results = <<>>
    /\ overtaken = {}
    /\ outgoing_links_stats = EmptyDict
    /\ incoming_links_stats = EmptyDict
    /\ \E ns \in NodeLists :
        LET targets == Range(ns) \cup {Outside} IN
        \E la \in LinkLists(targets, MaxEdges) :
        \E lb \in (IF Len(ns) >= 2 THEN LinkLists(targets, MaxEdges - Len(la))
                   ELSE {<<>>}) :
        \E lc \in (IF Len(ns) >= 3 THEN LinkLists(targets, MaxEdges - Len(la) - Len(lb))
                   ELSE {<<>>}) :
            /\ nodes = ns
            /\ edges = [n \in Range(ns) |->
                           IF n = NodeA THEN la ELSE IF n = NodeB THEN lb ELSE lc]
    /\ in_counts = EmptyDict
    /\ \E s \in Settings :
        /\ d = s.d
        /\ tol = s.tol
    /\ page_ranks = EmptyDict
    /\ iteration = 0
    /\ converged = FALSE
    /\ total_rank = 0
    /\ outbound_counts = EmptyDict
    /\ incoming_links = EmptyDict
    /\ top_5_pageranks = <<>>

----------------------------------------------------------------------------
(* analyze_bucket, stage 1: fetch *)

\* the .html files of the walk, each read as it is met; a read that raises
\* leaves analyze_bucket
LocalScan ==
    /\ pc = "start"
    /\ is_local
    /\ LET read == Truthy([i \in DOMAIN all_blobs |-> download_helper(all_blobs[i])])
       IN  IF \E i \in DOMAIN read : read[i].kind = "raised"
           THEN /\ pc' = "aborted"
                /\ UNCHANGED blobs_to_process
           ELSE /\ pc' = "parse"
                /\ blobs_to_process' = read
    /\ parsed' = [i \in DOMAIN blobs_to_process' |-> Pending]
    /\ UNCHANGED <<is_local, all_blobs, results, parsed_results, overtaken, graphVars,
                   statsVars, d, tol, solverVars, top_5_pageranks>>

\* the bucket is listed (its first 10 blobs while testing_enabled is set; the
\* sources here hold at most 3) and every blob is submitted to the download pool
ListBlobs ==
    /\ pc = "start"
    /\ ~is_local
    /\ pc' = "download"
    /\ results' = [i \in DOMAIN all_blobs |-> Pending]
    /\ UNCHANGED <<is_local, all_blobs, blobs_to_process, parsed, parsed_results,
                   overtaken, graphVars, statsVars, d, tol, solverVars, top_5_pageranks>>

\* one download worker finishes its blob
DownloadWorker(i) ==
    /\ pc = "download"
    /\ results[i].kind = "pending"
    /\ results' = [results EXCEPT ![i] = download_helper(all_blobs[i])]
    /\ overtaken' = IF FinishesAhead(results, i) THEN overtaken \cup {"download"}
                    ELSE overtaken
    /\ UNCHANGED <<pc, is_local, all_blobs, blobs_to_process, parsed, parsed_results,
                   graphVars, statsVars, d, tol, solverVars, top_5_pageranks>>

\* list(downloader.map(...)) once the pool has drained: a worker's exception
\* is raised again in analyze_bucket
CollectDownloads ==
    /\ pc = "download"
    /\ PoolDrained(results)
    /\ IF \E i \in DOMAIN results : results[i].kind = "raised"
       THEN /\ pc' = "aborted"
            /\ UNCHANGED blobs_to_process
       ELSE /\ pc' = "parse"
            /\ blobs_to_process' = Truthy(results)
    /\ parsed' = [i \in DOMAIN blobs_to_process' |-> Pending]
    /\ UNCHANGED <<is_local, all_blobs, results, parsed_results, overtaken, graphVars,
                   statsVars, d, tol, solverVars, top_5_pageranks>>

----------------------------------------------------------------------------
(* analyze_bucket, stage 2: parse *)

\* one parse worker finishes its document
ParseWorker(i) ==
    /\ pc = "parse"
    /\ parsed[i].kind = "pending"
    /\ parsed' = [parsed EXCEPT ![i] = process_blob_content(blobs_to_process[i])]
    /\ overtaken' = IF FinishesAhead(parsed, i) THEN overtaken \cup {"parse"}
                    ELSE overtaken
    /\ UNCHANGED <<pc, is_local, all_blobs, results, blobs_to_process, parsed_results,
                   graphVars, statsVars, d, tol, solverVars, top_5_pageranks>>

\* list(parser.map(...)) once the pool has drained: the pairs in input order
CollectParsed ==
    /\ pc = "parse"
    /\ PoolDrained(parsed)
    /\ parsed_results' = parsed
    /\ pc' = "build"
    /\ UNCHANGED <<is_local, all_blobs, results, blobs_to_process, parsed, overtaken,
                   graphVars, statsVars, d, tol, solverVars, top_5_pageranks>>

----------------------------------------------------------------------------
(* analyze_bucket: graph, statistics, solver call, report *)

BuildGraph ==
    /\ pc = "build"
    /\ nodes' = GraphNodes(parsed_results)
    /\ edges' = GraphEdges(parsed_results, EmptyDict)
    /\ in_counts' = GraphInCounts(parsed_results, EmptyDict)
    /\ pc' = "stats"
    /\ UNCHANGED <<pipelineVars, statsVars, d, tol, solverVars, top_5_pageranks>>

ComputeStats ==
    /\ pc = "stats"
    /\ outgoing_links_stats' = get_stats(out_degrees)
    /\ incoming_links_stats' = get_stats(in_degrees)
    /\ pc' = "call"
    /\ UNCHANGED <<pipelineVars, graphVars, d, tol, solverVars, top_5_pageranks>>

\* page_ranks = compute_page_rank(nodes, edges): the default d and tol
CallPageRank ==
    /\ pc = "call"
    /\ d' = DefaultD
    /\ tol' = DefaultTol
    /\ pc' = "pagerank"
    /\ UNCHANGED <<pipelineVars, graphVars, statsVars, solverVars, top_5_pageranks>>

ReportTop ==
    /\ pc = "returned"
    /\ top_5_pageranks' = TopPages(nodes, page_ranks)
    /\ pc' = "done"
    /\ UNCHANGED <<pipelineVars, graphVars, statsVars, d, tol, solverVars>>

----------------------------------------------------------------------------
(* compute_page_rank *)

\* the initial ranks, the outbound counts and the incoming-link index
EnterPageRank ==
    /\ pc = "pagerank"
    /\ page_ranks' = [node \in Range(nodes) |-> RoundDiv(SCALE, Len(nodes))]
    /\ converged' = FALSE
    /\ iteration' = 0
    /\ outbound_counts' = [node \in Range(nodes) |-> Len(edges[node])]
    /\ incoming_links' = IncomingLinks(nodes, edges, EmptyDict)
    /\ pc' = "loop"
    /\ UNCHANGED <<pipelineVars, graphVars, statsVars, d, tol, total_rank,
                   top_5_pageranks>>

\* one pass of the while loop
Iterate ==
    /\ pc = "loop"
    /\ ~converged
    /\ iteration < IterBound
    /\ IF DividesByZero
       THEN /\ pc' = "crashed"
            /\ iteration' = iteration + 1
            /\ UNCHANGED <<page_ranks, converged>>
       ELSE /\ page_ranks' = NewPageRanks
            /\ iteration' = iteration + 1
            /\ converged' = BelowTolerance(page_ranks')
            /\ pc' = "loop"
    /\ UNCHANGED <<pipelineVars, graphVars, statsVars, d, tol, total_rank,
                   outbound_counts, incoming_links, top_5_pageranks>>

\* the loop is left: the sum is reported and the ranks are returned
ReturnRanks ==
    /\ pc = "loop"
    /\ converged
    /\ total_rank' = RankSum(page_ranks)
    /\ pc' = "returned"
    /\ UNCHANGED <<pipelineVars, graphVars, statsVars, d, tol, page_ranks, iteration,
                   converged, outbound_counts, incoming_links, top_5_pageranks>>

----------------------------------------------------------------------------
(* Specifications *)

SolverNext ==
    \/ EnterPageRank
    \/ Iterate
    \/ ReturnRanks

Next ==
    \/ LocalScan
    \/ ListBlobs
    \/ \E i \in DOMAIN results : DownloadWorker(i)
    \/ CollectDownloads
    \/ \E i \in DOMAIN parsed : ParseWorker(i)
    \/ CollectParsed
    \/ BuildGraph
    \/ ComputeStats
    \/ CallPageRank
    \/ EnterPageRank
    \/ Iterate
    \/ ReturnRanks
    \/ ReportTop

Spec == Init /\ [][Next]_vars

SpecSolver == SolverInit /\ [][SolverNext]_vars

----------------------------------------------------------------------------
(* Claims C1-C4: termination and failure handling *)

\* C1: compute_page_rank never runs past the configured maximum number of
\* iterations: once MaxIterations passes are done without convergence, the loop
\* has been left (the solver stopped at the cap and returned its vector).
C1_StopsAtIterationCap ==
    iteration >= MaxIterations => (converged \/ pc # "loop")

\* the graph has been built (lines 178-187 are behind the control flow)
GraphBuilt == pc \in {"stats", "call", "pagerank", "loop", "crashed", "returned", "done"}

\* C2: when no document matches the filter, both statistics are empty and no
\* PageRank iteration is ever made.
C2_EmptyCorpusSkipsPageRank ==
    (GraphBuilt /\ nodes = <<>>) =>
        /\ DOMAIN outgoing_links_stats = {}
        /\ DOMAIN incoming_links_stats = {}
        /\ iteration = 0

\* C3: a download that raises drops only its document; the run is never
\* aborted by it.
C3_FetchFailureIsolated == pc # "aborted"

\* the .html blobs of the source whose download does not raise
Fetched == {i \in DOMAIN all_blobs : EndsWithHtml(all_blobs[i].name) /\ ~all_blobs[i].fails}

\* the pair the pipeline owes blob b: its hyperlinks, or none when its parse fails
OwedPair(b) == Pair(b.name, IF b.parse_ok THEN b.hrefs ELSE <<>>)

\* the pipeline has ended, with its pairs or by an exception
PipelineEnded == GraphBuilt \/ pc \in {"build", "aborted"}

\* C4: the pipeline ends with exactly one pair for every fetched .html document (an
\* empty outlink list when its parse failed) and no other pair.
C4_OnePairPerFetchedDocument ==
    PipelineEnded =>
        /\ \A i \in Fetched :
              Cardinality({j \in DOMAIN parsed_results :
                              parsed_results[j] = OwedPair(all_blobs[i])}) = 1
        /\ Len(parsed_results) = Cardinality(Fetched)

\* C4 without the runs C3 aborts: what the pipeline delivers when it delivers
C4_PairsWhenDelivered ==
    (PipelineEnded /\ pc # "aborted") => C4_OnePairPerFetchedDocument

----------------------------------------------------------------------------
(* Claims C5-C7: the solver's update rule and its results *)

RECURSIVE SumOver(_, _)
SumOver(S, f) ==
    IF S = {} THEN 0
    ELSE LET x == CHOOSE y \in S : TRUE IN f[x] + SumOver(S \ {x}, f)

\* the rank the update formula gives t from the vector `ranks`, read off the
\* edges: every source with outlinks gives rank/outDegree once per edge to t
FormulaRank(t, ranks) ==
    LET sources == {s \in Range(nodes) : Len(edges[s]) > 0}
        given == [s \in sources |-> Count(edges[s], t) * RoundDiv(ranks[s], Len(edges[s]))]
    IN  RoundDiv(SCALE - d, Len(nodes)) + MulDiv(SumOver(sources, given), d, SCALE)

\* rank is 1/n to the nearest unit
IsUniform(ranks) ==
    \A t \in Range(nodes) : 2 * Abs(ranks[t] * Len(nodes) - SCALE) <= Len(nodes)

\* C5: the solver starts from rank[t] = 1/n, and every iteration gives every node
\* t the rank (1-d)/n + d * sum of rank[s]/outDegree[s] over the edges (s, t),
\* computed from the vector of the previous iteration alone.
C5_UpdateFromPreviousVector ==
    [][/\ pc = "pagerank" => IsUniform(page_ranks')
       /\ (pc = "loop" /\ iteration' = iteration + 1 /\ pc' = "loop") =>
              \A t \in Range(nodes) : page_ranks'[t] = FormulaRank(t, page_ranks)]_vars

\* three iterations made on a graph with a duplicate edge, a node without
\* outlinks and a link between two different nodes
C5_Witness ==
    /\ pc = "loop"
    /\ iteration >= 3
    /\ \E s \in Range(nodes) : edges[s] = <<>>
    /\ \E s, t \in Range(nodes) : s # t /\ Count(edges[s], t) = 2
    /\ \E s, t \in Range(nodes) : page_ranks[s] # page_ranks[t]

\* no edge leaves the corpus
Closed == \A s \in Range(nodes) : \A i \in DOMAIN edges[s] : edges[s][i] \in Range(nodes)

\* every node has an outlink
NoSink == \A s \in Range(nodes) : edges[s] # <<>>

\* the sum is within 0.01 of 1.0
SumNearOne == Abs(total_rank - SCALE) * 100 <= SCALE

\* C6 as stated: for a graph with no edge to an out-of-corpus target, the
\* returned ranks sum to 1.0 within 0.01.
C6_ClosedGraphSumsToOne == (pc = "returned" /\ Closed) => SumNearOne

\* C6: for a graph with no edge to an out-of-corpus target in which every node
\* has at least one outlink, the returned ranks sum to 1.0 within 0.01.
C6_ClosedGraphWithoutSinksSumsToOne == (pc = "returned" /\ Closed /\ NoSink) => SumNearOne

\* ranks returned, after several iterations, for a closed graph without sinks
\* whose nodes do not all rank alike
C6_Witness ==
    /\ pc = "returned"
    /\ Closed
    /\ NoSink
    /\ iteration >= 3
    /\ \E s, t \in Range(nodes) : page_ranks[s] # page_ranks[t]

\* the nodes reached from x by following at most k times its single outlink
RECURSIVE Follow(_, _)
Follow(x, k) == IF k = 0 THEN {x} ELSE {x} \cup Follow(edges[x][1], k - 1)

\* one outlink per node, the links forming a single cycle through all nodes
IsCycle ==
    /\ nodes # <<>>
    /\ \A s \in Range(nodes) : Len(edges[s]) = 1 /\ edges[s][1] \in Range(nodes)
    /\ \A s, t \in Range(nodes) : s # t => edges[s][1] # edges[t][1]
    /\ Follow(nodes[1], Len(nodes) - 1) = Range(nodes)

\* C7: on a directed cycle the solver converges (its first iteration already
\* meets the tolerance, and it does not fail) and the ranks it returns differ by
\* less than 0.01 between any two nodes.
C7_CycleConvergesToEqualRanks ==
    IsCycle =>
        /\ pc # "crashed"
        /\ iteration >= 1 => converged
        /\ pc = "returned" =>
              \A s, t \in Range(nodes) : Abs(page_ranks[s] - page_ranks[t]) * 100 < SCALE

\* the ranks of the cycle A -> B -> C -> A have been returned
C7_Witness ==
    /\ pc = "returned"
    /\ IsCycle
    /\ Len(nodes) = 3
    /\ edges[NodeA] = <<NodeB>>
    /\ d = Fixed(85, 100)
    /\ tol = Fixed(1, 1000)

----------------------------------------------------------------------------
(* Claims C8-C10: the graph and the report *)

\* compute_page_rank has built its counts and its incoming-link index
SolverEntered == pc \in {"loop", "crashed", "returned", "done"}

\* the edges the pipeline's pairs record
TotalEdges == SumSeq([i \in DOMAIN parsed_results |-> Len(parsed_results[i].content)])

\* those of them whose target is a node
EdgesIntoCorpus ==
    SumSeq([i \in DOMAIN parsed_results |->
               Cardinality({j \in DOMAIN parsed_results[i].content :
                               parsed_results[i].content[j] \in Range(nodes)})])

SumOutDegrees == SumSeq([i \in DOMAIN nodes |-> outbound_counts[nodes[i]]])

SumIncomingOverNodes ==
    SumSeq([i \in DOMAIN nodes |-> Len(Get(incoming_links, nodes[i], <<>>))])

SumIncomingOverTargets ==
    SumOver(DOMAIN incoming_links, [t \in DOMAIN incoming_links |-> Len(incoming_links[t])])

SumInCountsOverTargets == SumOver(DOMAIN in_counts, in_counts)

\* C8 as stated: the out-degrees sum to the number of recorded edges, which is
\* also the sum over the nodes t of len(incomingLinks[t]) and of the in-degrees.
C8_DegreeSumsEqualEdgeCount ==
    SolverEntered =>
        /\ SumOutDegrees = TotalEdges
        /\ SumSeq(out_degrees) = TotalEdges
        /\ SumIncomingOverNodes = TotalEdges
        /\ SumSeq(in_degrees) = TotalEdges

\* C8: the out-degrees sum to the number of recorded edges, which is also the sum
\* of len(incomingLinks[t]) and of in_counts[t] over all recorded targets t,
\* nodes or not; over the nodes alone both sums are the number of edges whose
\* target is a node.
C8_DegreeSumsOverAllTargets ==
    SolverEntered =>
        /\ SumOutDegrees = TotalEdges
        /\ SumSeq(out_degrees) = TotalEdges
        /\ SumIncomingOverTargets = TotalEdges
        /\ SumInCountsOverTargets = TotalEdges
        /\ SumIncomingOverNodes = EdgesIntoCorpus
        /\ SumSeq(in_degrees) = EdgesIntoCorpus

\* a graph with a duplicate edge, a link of a node to itself and a target that
\* is no node has reached the solver
C8_Witness ==
    /\ SolverEntered
    /\ \E n \in Range(nodes) :
          /\ Count(edges[n], n) = 2
          /\ \E j \in DOMAIN edges[n] : edges[n][j] \notin Range(nodes)

\* the position of node x in the ingestion order
Position(x) == CHOOSE i \in DOMAIN nodes : nodes[i] = x

\* top_5_pageranks holds the min(K, n) best-scored nodes with their scores, in
\* descending score order
IsTopByScore ==
    /\ Len(top_5_pageranks) = (IF Len(nodes) < TOP_K THEN Len(nodes) ELSE TOP_K)
    /\ \A i \in DOMAIN top_5_pageranks :
          /\ top_5_pageranks[i][1] \in Range(nodes)
          /\ top_5_pageranks[i][2] = page_ranks[top_5_pageranks[i][1]]
    /\ \A i, j \in DOMAIN top_5_pageranks :
          i < j => /\ top_5_pageranks[i][1] # top_5_pageranks[j][1]
                   /\ top_5_pageranks[i][2] >= top_5_pageranks[j][2]
    /\ \A t \in Range(nodes) \ {top_5_pageranks[i][1] : i \in DOMAIN top_5_pageranks} :
          \A i \in DOMAIN top_5_pageranks : top_5_pageranks[i][2] >= page_ranks[t]

IsAbsoluteUrl(target) == target # <<>> /\ Head(target) = "http:"
IsRootRelative(target) == target # <<>> /\ Head(target) = "/"

\* the index of the last "/" of id, 0 when it has none
LastSlash(id) ==
    LET at == {i \in DOMAIN id : id[i] = "/"}
    IN  IF at = {} THEN 0 ELSE CHOOSE i \in at : \A j \in at : j <= i

\* parent(referencing_id) + "/" + target, or target when id has no parent
Resolve(id, target) ==
    IF LastSlash(id) = 0 THEN target
    ELSE SubSeq(id, 1, LastSlash(id) - 1) \o <<"/">> \o target

\* C10: every hyperlink target that starts neither with an absolute-URL scheme
\* nor with "/" is recorded in the graph resolved against the parent directory
\* of the document it was found in.
C10_RelativeTargetsResolved ==
    GraphBuilt =>
        \A i \in Fetched :
            all_blobs[i].parse_ok =>
                \A j \in DOMAIN all_blobs[i].hrefs :
                    LET target == all_blobs[i].hrefs[j] IN
                    (~IsAbsoluteUrl(target) /\ ~IsRootRelative(target)) =>
                        edges[all_blobs[i].name][j] = Resolve(all_blobs[i].name, target)

----------------------------------------------------------------------------
(* Claim C11: the graph does not depend on the workers' completion order *)

\* the outlinks a document contributes: its hyperlinks, or none when its parse fails
Outlinks(b) == IF b.parse_ok THEN b.hrefs ELSE <<>>

\* every target some fetched document links to
LinkTargets == UNION {Range(Outlinks(all_blobs[i])) : i \in Fetched}

\* the graph read off the documents themselves, with no reference to the pools
GraphFromDocuments ==
    /\ Range(nodes) = {all_blobs[i].name : i \in Fetched}
    /\ Len(nodes) = Cardinality(Fetched)
    /\ DOMAIN edges = Range(nodes)
    /\ \A i \in Fetched : edges[all_blobs[i].name] = Outlinks(all_blobs[i])
    /\ DOMAIN in_counts = LinkTargets
    /\ \A t \in LinkTargets :
          in_counts[t] = SumOver(Fetched, [i \in Fetched |-> Count(Outlinks(all_blobs[i]), t)])

\* what a worker has returned stays as it returned it, and is what its own
\* input gives
SlotsPrivate ==
    /\ \A i \in DOMAIN results :
          /\ i \in DOMAIN results'
          /\ results[i].kind # "pending" =>
                /\ results'[i].kind = results[i].kind
                /\ results'[i].name = results[i].name
          /\ results'[i].kind \in {"pending", download_helper(all_blobs[i]).kind}
    /\ \A i \in DOMAIN parsed :
          (pc = "parse" /\ pc' = "parse") =>
              /\ i \in DOMAIN parsed'
              /\ parsed[i].kind # "pending" => parsed'[i] = parsed[i]
              /\ parsed'[i].kind = "pair" =>
                    parsed'[i] = process_blob_content(blobs_to_process[i])

\* results are combined by the orchestrating flow alone, once the pool is empty
CombinedAfterDrain ==
    /\ (pc = "download" /\ pc' = "download") =>
          UNCHANGED <<blobs_to_process, parsed_results, nodes, edges, in_counts>>
    /\ (pc = "parse" /\ pc' = "parse") =>
          UNCHANGED <<blobs_to_process, parsed_results, nodes, edges, in_counts>>
    /\ (pc = "download" /\ pc' # "download") =>
          \A i \in DOMAIN results : results[i].kind # "pending"
    /\ (pc = "parse" /\ pc' # "parse") =>
          \A i \in DOMAIN parsed : parsed[i].kind # "pending"

\* C11: whatever the order in which the fetch workers and the parse workers
\* finish, the graph handed to the statistics and the solver (node set, each
\* node's outlink list, in-degree counts) is the one the documents determine;
\* a worker writes nothing but its own result, and results are combined only
\* by the orchestrating flow after the pool has drained.
C11_GraphIndependentOfCompletionOrder ==
    [][/\ SlotsPrivate
       /\ CombinedAfterDrain
       /\ GraphBuilt' => GraphFromDocuments']_vars

\* a bucket run whose fetch workers and parse workers both finished out of
\* submission order, and that built a graph of two documents with a link
C11_Witness ==
    /\ GraphBuilt
    /\ ~is_local
    /\ overtaken = {"download", "parse"}
    /\ Len(nodes) = 2
    /\ \E t \in Range(nodes) : Get(in_counts, t, 0) >= 1

----------------------------------------------------------------------------
(* Claim C12: the ranks stay positive, so the relative error is defined *)

\* (1 - d) / n
BaseRank == RoundDiv(SCALE - d, Len(nodes))

\* C12: with at least one node and 0 <= d < 1, every rank is strictly positive
\* in every iteration (1/n initially, at least (1 - d)/n after the first
\* iteration), so no relative error is ever divided by zero.
C12_RanksStrictlyPositive ==
    (SolverEntered /\ Len(nodes) >= 1 /\ 0 <= d /\ d < SCALE) =>
        /\ pc # "crashed"
        /\ ~DividesByZero
        /\ \A t \in Range(nodes) :
              /\ page_ranks[t] > 0
              /\ iteration = 0 => page_ranks[t] = RoundDiv(SCALE, Len(nodes))
              /\ iteration >= 1 => page_ranks[t] >= BaseRank

\* the third pass over three nodes with 0 < d < 1, one of them with no
\* incoming link and so with exactly (1 - d)/n, the least rank there is
C12_Witness ==
    /\ pc = "loop"
    /\ 0 < d
    /\ d < SCALE
    /\ Len(nodes) = 3
    /\ iteration >= 2
    /\ ~converged
    /\ \E t \in Range(nodes) :
          /\ Get(incoming_links, t, <<>>) = <<>>
          /\ page_ranks[t] = BaseRank

====
